---- MODULE Spec2Model ----
(***************************************************************************)
(* calculate_cep(filepath) of src/src/calculate_cep.py as a state machine. *)
(*                                                                         *)
(* One call is modelled: the existence test, the open, the read of the     *)
(* header by csv.DictReader, the row loop with its float() conversions,    *)
(* the except clauses, the minimum-count test and the numeric computation. *)
(* A CSV field is a sequence of one-character strings, a line a sequence   *)
(* of fields, a file a sequence of lines.  A coordinate is the float64    *)
(* that float() returns, bit for bit.  The value returned is kept twice:   *)
(* as the float64 that numpy computes from the coordinates, bit for bit,   *)
(* and as the real number 1.5382 * sqrt(v) that the exact values of the    *)
(* coordinates give, the pair (coefficient, v) of exact rationals.         *)
(***************************************************************************)
EXTENDS Integers, Sequences, FiniteSets, TLC

VARIABLES
    fs,        \* what the path names: "absent", "dir" (exists, cannot be opened for reading), "file"
    decodable, \* whether the bytes of the file decode in the default encoding
    lines,     \* the lines of the file as csv.reader yields them
    pc,        \* position of the call inside calculate_cep
    fieldnames,\* reader.fieldnames once read (None before, and for an empty file)
    pos,       \* number of lines csv.reader has consumed
    coords,    \* the list coords
    caught,    \* the exception an except clause of lines 36-39 caught, if any
    outcome,   \* how the call ended: nothing yet, an exception, or a return
    result     \* the value returned (None before)

vars == <<fs, decodable, lines, pc, fieldnames, pos, coords, caught, outcome, result>>

\* Python's None where a float is expected, and an optional sequence.
None == [cls |-> "None"]
Nothing == [none |-> TRUE, v |-> <<>>]
Some(v) == [none |-> FALSE, v |-> v]

----------------------------------------------------------------------------
(* Bounds of the model. *)

\* Largest number of data lines of a file.
MaxRows == 3

\* Largest number of data lines of a file whose header is not <<x, y, z>>.
MaxRowsSchema == 2

----------------------------------------------------------------------------
(* The float64 arithmetic of numpy (lines 46-60).  TLC's integers have 32   *)
(* bits, so a significand is kept as a natural number of any size: a         *)
(* little-endian sequence of limbs below Base, without leading zero limbs    *)
(* (zero is the empty sequence).  An operation that passes a carry along the *)
(* limbs works on a range of limbs, which it splits in halves.               *)
LimbBits == 15
Base == 32768

RECURSIVE Pow2(_)
Pow2(k) == IF k = 0 THEN 1 ELSE 2 * Pow2(k - 1)

RECURSIVE Pow10(_)
Pow10(k) == IF k = 0 THEN 1 ELSE 10 * Pow10(k - 1)

\* y, evaluated after x.  TLC evaluates an argument of an operator where it
\* is first used, which may be many calls further down; a value that the next
\* step starts from is evaluated before the step.
After(x, y) == IF x = x THEN y ELSE y

SetMax(S) == CHOOSE x \in S : \A y \in S : y <= x

SetMin(S) == CHOOSE x \in S : \A y \in S : x <= y

\* a without its leading zero limbs.
BNorm(a) ==
    LET nz == {i \in 1..Len(a) : a[i] # 0}
    IN  IF nz = {} THEN <<>> ELSE SubSeq(a, 1, SetMax(nz))

Limb(a, i) == IF i <= Len(a) THEN a[i] ELSE 0

\* The limb that x leaves and the carry it sends up.
LimbCarry(x) == [s |-> <<x % Base>>, c |-> x \div Base]

\* The limb that x leaves and the borrow it takes from above.
LimbBorrow(x) == [s |-> <<x % Base>>, c |-> IF x < 0 THEN 1 ELSE 0]

\* The limbs of l followed by those of h, with the carry out of h.
Join(l, h) == [s |-> l.s \o h.s, c |-> h.c]

\* The limbs of r, and its carry as one more limb.
WithCarry(r) == IF r.c = 0 THEN r.s ELSE r.s \o <<r.c>>

\* The limbs lo..hi of a + b with the carry c into limb lo, and the carry
\* out of limb hi.  BAddRest adds the limbs lo..hi to the limbs l below them.
RECURSIVE BAddC(_, _, _, _, _)
BAddRest(a, b, lo, hi, l) == After(l, Join(l, BAddC(a, b, lo, hi, l.c)))

BAddC(a, b, lo, hi, c) ==
    IF lo = hi THEN LimbCarry(Limb(a, lo) + Limb(b, lo) + c)
    ELSE BAddRest(a, b, (lo + hi) \div 2 + 1, hi, BAddC(a, b, lo, (lo + hi) \div 2, c))

BAdd(a, b) ==
    IF a = <<>> THEN b
    ELSE IF b = <<>> THEN a
    ELSE WithCarry(BAddC(a, b, 1, IF Len(a) > Len(b) THEN Len(a) ELSE Len(b), 0))

\* The limbs lo..hi of a - b with the borrow c from limb lo, and the borrow
\* from limb hi + 1.
RECURSIVE BSubC(_, _, _, _, _)
BSubRest(a, b, lo, hi, l) == After(l, Join(l, BSubC(a, b, lo, hi, l.c)))

BSubC(a, b, lo, hi, c) ==
    IF lo = hi THEN LimbBorrow(Limb(a, lo) - Limb(b, lo) - c)
    ELSE BSubRest(a, b, (lo + hi) \div 2 + 1, hi, BSubC(a, b, lo, (lo + hi) \div 2, c))

\* a - b for a >= b.
BSub(a, b) == IF b = <<>> THEN a ELSE BNorm(BSubC(a, b, 1, Len(a), 0).s)

\* -1, 0 or 1 as a < b, a = b or a > b.
BCmp(a, b) ==
    IF Len(a) < Len(b) THEN -1
    ELSE IF Len(a) > Len(b) THEN 1
    ELSE LET df == {i \in 1..Len(a) : a[i] # b[i]}
         IN  IF df = {} THEN 0
             ELSE IF a[SetMax(df)] < b[SetMax(df)] THEN -1 ELSE 1

\* The limbs lo..hi of a * k with the carry c into limb lo, and the carry
\* out of limb hi, for 0 < k < Base.
RECURSIVE BMulSmallC(_, _, _, _, _)
BMulSmallRest(a, k, lo, hi, l) == After(l, Join(l, BMulSmallC(a, k, lo, hi, l.c)))

BMulSmallC(a, k, lo, hi, c) ==
    IF lo = hi THEN LimbCarry(a[lo] * k + c)
    ELSE BMulSmallRest(a, k, (lo + hi) \div 2 + 1, hi,
                       BMulSmallC(a, k, lo, (lo + hi) \div 2, c))

\* a * k for 0 <= k < Base.
BMulSmall(a, k) ==
    IF k = 0 \/ a = <<>> THEN <<>>
    ELSE WithCarry(BMulSmallC(a, k, 1, Len(a), 0))

\* a * Base^n.
ShiftLimbs(a, n) == IF a = <<>> THEN a ELSE [i \in 1..n |-> 0] \o a

\* a times the number that the limbs lo..hi of b make.
RECURSIVE BMulAt(_, _, _, _)
BMulAt(a, b, lo, hi) ==
    IF lo = hi THEN BMulSmall(a, b[lo])
    ELSE BAdd(BMulAt(a, b, lo, (lo + hi) \div 2),
              ShiftLimbs(BMulAt(a, b, (lo + hi) \div 2 + 1, hi), (lo + hi) \div 2 + 1 - lo))

BMul(a, b) == IF a = <<>> \/ b = <<>> THEN <<>> ELSE BMulAt(a, b, 1, Len(b))

\* The limb of the quotient that x leaves, and its remainder.
LimbQuotient(x, k) == [q |-> <<x \div k>>, r |-> x % k]

\* The limbs of l followed by those of h, with the remainder of l.
JoinQuotient(l, h) == [q |-> l.q \o h.q, r |-> l.r]

\* The limbs lo..hi of the quotient of a by k, 0 < k < Base, with the
\* remainder r coming from limb hi + 1, and the remainder that limb lo
\* leaves.  BDivSmallRest divides the limbs lo..hi below the limbs h.
RECURSIVE BDivSmallAt(_, _, _, _, _)
BDivSmallRest(a, k, lo, hi, h) ==
    After(h, JoinQuotient(BDivSmallAt(a, k, lo, hi, h.r), h))

BDivSmallAt(a, k, lo, hi, r) ==
    IF lo = hi THEN LimbQuotient(r * Base + a[lo], k)
    ELSE BDivSmallRest(a, k, lo, (lo + hi) \div 2,
                       BDivSmallAt(a, k, (lo + hi) \div 2 + 1, hi, r))

\* The quotient d.q without leading zero limbs, and whether the remainder
\* d.r is not zero (or inexact already held).
Inexact(d, inexact) == [q |-> BNorm(d.q), inexact |-> inexact \/ d.r # 0]

\* Quotient of a by k, 0 < k < Base, and whether a remainder is left (or
\* inexact already held).
BDivSmall(a, k, inexact) ==
    IF a = <<>> THEN [q |-> <<>>, inexact |-> inexact]
    ELSE Inexact(BDivSmallAt(a, k, 1, Len(a), 0), inexact)

\* a * 2^s.
BShl(a, s) == ShiftLimbs(BMulSmall(a, Pow2(s % LimbBits)), s \div LimbBits)

\* floor(a / 2^s).
BShr(a, s) ==
    IF s \div LimbBits >= Len(a) THEN <<>>
    ELSE BDivSmall(SubSeq(a, s \div LimbBits + 1, Len(a)), Pow2(s % LimbBits), FALSE).q

RECURSIVE BitLenSmall(_)
BitLenSmall(x) == IF x = 0 THEN 0 ELSE 1 + BitLenSmall(x \div 2)

BitLen(a) == IF a = <<>> THEN 0 ELSE LimbBits * (Len(a) - 1) + BitLenSmall(a[Len(a)])

BOdd(a) == a # <<>> /\ a[1] % 2 = 1

BFromInt(x) == BNorm(<<x % Base, (x \div Base) % Base, x \div (Base * Base)>>)

\* c when its square stays within a, r otherwise.
BSqrtBit(a, r, c) == IF BCmp(BMul(c, c), a) <= 0 THEN c ELSE r

\* r with each of the bits hi down to lo set when the square stays within a.
RECURSIVE BSqrtFrom(_, _, _, _)
BSqrtRest(a, top, hi, lo) == After(top, BSqrtFrom(a, top, hi, lo))

BSqrtFrom(a, r, hi, lo) ==
    IF hi = lo THEN BSqrtBit(a, r, BAdd(r, BShl(<<1>>, hi)))
    ELSE BSqrtRest(a, BSqrtFrom(a, r, hi, (lo + hi) \div 2 + 1), (lo + hi) \div 2, lo)

\* floor(sqrt(a)).
BSqrt(a) == BSqrtFrom(a, <<>>, BitLen(a) \div 2, 0)

\* a * 10^k.
RECURSIVE BMulPow10(_, _)
BMulPow10Rest(half, k) == After(half, BMulPow10(half, k))

BMulPow10(a, k) ==
    IF k <= 4 THEN BMulSmall(a, Pow10(k))
    ELSE BMulPow10Rest(BMulPow10(a, k \div 2), k - k \div 2)

\* floor(a / 10^k), and whether the division left a remainder (or inexact
\* already held).
RECURSIVE BDivPow10(_, _, _)
BDivPow10Rest(half, k) == After(half, BDivPow10(half.q, k, half.inexact))

BDivPow10(a, k, inexact) ==
    IF k <= 4 THEN BDivSmall(a, Pow10(k), inexact)
    ELSE BDivPow10Rest(BDivPow10(a, k \div 2, inexact), k - k \div 2)

\* The number of zero bits below the lowest one bit of a # <<>>.
RECURSIVE LowZerosSmall(_)
LowZerosSmall(x) == IF x % 2 = 1 THEN 0 ELSE 1 + LowZerosSmall(x \div 2)

LowZeros(a) ==
    LET low == SetMin({i \in 1..Len(a) : a[i] # 0})
    IN  LimbBits * (low - 1) + LowZerosSmall(a[low])

(* A float64 is nan, +inf, -inf or (-1)^s * m * 2^e: m = <<>> and e = 0    *)
(* for the two zeros, m of exactly Precision bits for a normal number, m   *)
(* of fewer bits and e = MinExp for a subnormal one.  Every operation      *)
(* rounds its exact result to nearest, ties to even, goes to an infinity   *)
(* above the largest finite number, and loses precision gradually below    *)
(* the smallest normal one, as the hardware does.                          *)
Precision == 53

\* The exponent of the lowest bit of a subnormal number.
MinExp == 0 - 1074

\* The exponent of the highest bit of the largest finite number.
MaxExp == 1023

F64Zero(s) == [cls |-> "fin", s |-> s, m |-> <<>>, e |-> 0]
F64NaN == [cls |-> "nan", s |-> 0, m |-> <<>>, e |-> 0]
F64Inf(s) == [cls |-> "inf", s |-> s, m |-> <<>>, e |-> 0]

F64IsZero(a) == a.cls = "fin" /\ a.m = <<>>

\* (-1)^s * m * 2^e for m # <<>> that fits the format at exponent e, or the
\* infinity when it lies above the largest finite number.
F64Pack(s, m, e) ==
    IF e + BitLen(m) - 1 > MaxExp THEN F64Inf(s)
    ELSE [cls |-> "fin", s |-> s, m |-> m, e |-> e]

\* The exponent of the lowest bit kept of a number whose highest bit has the
\* exponent top.
LastPlace(top) ==
    IF top - (Precision - 1) > MinExp THEN top - (Precision - 1) ELSE MinExp

\* q, or q + 1 when the part cut off below q is above one half (c > 0), or
\* is one half (c = 0) with something below it or with q odd.
RoundUp(q, c, sticky) ==
    IF c > 0 \/ (c = 0 /\ (sticky \/ BOdd(q))) THEN BAdd(q, <<1>>) ELSE q

\* (-1)^s * q * 2^t for q of at most Precision bits, or q = 2^Precision.
F64Carry(s, q, t) ==
    IF q = <<>> THEN F64Zero(s)
    ELSE IF BitLen(q) > Precision THEN F64Pack(s, BShr(q, 1), t + 1)
    ELSE F64Pack(s, q, t)

\* m * 2^e cut at the bit d places up, where q = floor(m / 2^d).
F64RoundCut(s, m, d, sticky, t, q) ==
    F64Carry(s, RoundUp(q, BCmp(BSub(m, BShl(q, d)), BShl(<<1>>, d - 1)), sticky), t)

\* m * 2^e with the lowest bit kept at exponent t.
F64RoundAt(s, m, e, sticky, t) ==
    IF t <= e THEN F64Pack(s, BShl(m, e - t), t)
    ELSE F64RoundCut(s, m, t - e, sticky, t, BShr(m, t - e))

\* (-1)^s * (m + f) * 2^e rounded to nearest, ties to even, where 0 <= f < 1
\* and sticky says f > 0.  With sticky, m has more bits than the result
\* keeps (every use below sees to that).
F64Round(s, m, e, sticky) ==
    IF m = <<>> THEN F64Zero(s)
    ELSE F64RoundAt(s, m, e, sticky, LastPlace(e + BitLen(m) - 1))

\* (-1)^s * d.q * 2^e, of a quotient d with its flag inexact.
F64RoundQuotient(s, d, e) == F64Round(s, d.q, e, d.inexact)

F64Neg(a) == IF a.cls = "nan" THEN a ELSE [a EXCEPT !.s = 1 - a.s]

\* (-1)^sa * ma * 2^e + (-1)^sb * mb * 2^e for ma and mb not zero.
F64AddAt(sa, ma, sb, mb, e) ==
    IF sa = sb THEN F64Round(sa, BAdd(ma, mb), e, FALSE)
    ELSE IF ma = mb THEN F64Zero(0)
    ELSE IF BCmp(ma, mb) > 0 THEN F64Round(sa, BSub(ma, mb), e, FALSE)
    ELSE F64Round(sb, BSub(mb, ma), e, FALSE)

F64Add(a, b) ==
    IF a.cls = "nan" \/ b.cls = "nan" THEN F64NaN
    ELSE IF a.cls = "inf" /\ b.cls = "inf" THEN (IF a.s = b.s THEN a ELSE F64NaN)
    ELSE IF a.cls = "inf" THEN a
    ELSE IF b.cls = "inf" THEN b
    ELSE IF a.m = <<>> /\ b.m = <<>> THEN F64Zero(IF a.s = b.s THEN a.s ELSE 0)
    ELSE IF a.m = <<>> THEN b
    ELSE IF b.m = <<>> THEN a
    ELSE IF a.e < b.e THEN F64AddAt(a.s, a.m, b.s, BShl(b.m, b.e - a.e), a.e)
    ELSE F64AddAt(a.s, BShl(a.m, a.e - b.e), b.s, b.m, b.e)

F64Sub(a, b) == F64Add(a, F64Neg(b))

F64Mul(a, b) ==
    IF a.cls = "nan" \/ b.cls = "nan" THEN F64NaN
    ELSE IF a.cls = "inf" \/ b.cls = "inf"
      THEN (IF F64IsZero(a) \/ F64IsZero(b) THEN F64NaN ELSE F64Inf((a.s + b.s) % 2))
    ELSE F64Round((a.s + b.s) % 2, BMul(a.m, b.m), a.e + b.e, FALSE)

\* Bits kept below the quotient of a division, twice as many below a root.
GuardBits == 60

\* a / k for an integer 0 < k < Base (a count of rows).
F64DivInt(a, k) ==
    IF a.cls # "fin" \/ a.m = <<>> THEN a
    ELSE F64RoundQuotient(a.s, BDivSmall(BShl(a.m, GuardBits), k, FALSE), a.e - GuardBits)

\* r * 2^e for r = floor(sqrt(n)).
F64RoundRoot(n, r, e) == F64Round(0, r, e, BMul(r, r) # n)

\* sqrt(m * 2^e) with k bits kept below the root, e - k even.
F64SqrtAt(m, e, k) == F64RoundRoot(BShl(m, k), BSqrt(BShl(m, k)), (e - k) \div 2)

F64Sqrt(a) ==
    IF a.cls = "nan" THEN F64NaN
    ELSE IF F64IsZero(a) THEN a
    ELSE IF a.s = 1 THEN F64NaN
    ELSE IF a.cls = "inf" THEN a
    ELSE F64SqrtAt(a.m, a.e, IF a.e % 2 = 0 THEN 2 * GuardBits ELSE 2 * GuardBits + 1)

\* The float64 nearest to (-1)^s * dg * 10^x, as float() and the compiler
\* read a decimal literal with the digits dg and the exponent x.
F64FromDecimal(s, dg, x) ==
    IF dg = <<>> THEN F64Zero(s)
    ELSE IF x >= 310 THEN F64Inf(s)
    ELSE IF x >= 0 THEN F64Round(s, BMulPow10(dg, x), 0, FALSE)
    ELSE IF x + BitLen(dg) \div 3 + 1 <= 0 - 324 THEN F64Zero(s)
    ELSE F64RoundQuotient(s, BDivPow10(BShl(dg, 4 * (-x) + GuardBits), -x, FALSE),
                          -(4 * (-x) + GuardBits))

----------------------------------------------------------------------------
(* Real numbers: the exact value of a float64 and exact arithmetic on such *)
(* values, for the number a float64 result stands for.  A finite value is  *)
(* (-1)^s * n / d with d # <<>>, not in lowest terms; nan and the          *)
(* infinities are kept, with the rules of the float operations.            *)

Real(s, n, d) == [cls |-> "fin", s |-> IF n = <<>> THEN 0 ELSE s, n |-> n, d |-> d]
RealNaN == [cls |-> "nan", s |-> 0, n |-> <<>>, d |-> <<1>>]
RealInf(s) == [cls |-> "inf", s |-> s, n |-> <<1>>, d |-> <<1>>]

IsFinite(a) == a.cls = "fin"

\* The integer k.
RealOfInt(k) == Real(IF k < 0 THEN 1 ELSE 0, BFromInt(IF k < 0 THEN -k ELSE k), <<1>>)

\* The exact value of a float64.
RealOfF64(a) ==
    IF a.cls = "nan" THEN RealNaN
    ELSE IF a.cls = "inf" THEN RealInf(a.s)
    ELSE IF a.m = <<>> THEN Real(0, <<>>, <<1>>)
    ELSE IF a.e >= 0 THEN Real(a.s, BShl(a.m, a.e), <<1>>)
    ELSE LET z == IF LowZeros(a.m) < -a.e THEN LowZeros(a.m) ELSE -a.e
         IN  Real(a.s, BShr(a.m, z), BShl(<<1>>, -a.e - z))

RealEq(a, b) ==
    /\ a.cls = b.cls
    /\ a.cls = "inf" => a.s = b.s
    /\ a.cls = "fin" => (a.s = b.s /\ BMul(a.n, b.d) = BMul(b.n, a.d))

RealNeg(a) == IF a.cls = "nan" \/ a.n = <<>> THEN a ELSE [a EXCEPT !.s = 1 - a.s]

\* (-1)^sa * x / d + (-1)^sb * y / d.
RealAddAt(sa, x, sb, y, d) ==
    IF sa = sb THEN Real(sa, BAdd(x, y), d)
    ELSE IF BCmp(x, y) >= 0 THEN Real(sa, BSub(x, y), d)
    ELSE Real(sb, BSub(y, x), d)

\* a + b: inf + (-inf) is nan.
RealAdd(a, b) ==
    IF a.cls = "nan" \/ b.cls = "nan" THEN RealNaN
    ELSE IF a.cls = "inf" /\ b.cls = "inf" THEN (IF a.s = b.s THEN a ELSE RealNaN)
    ELSE IF a.cls = "inf" THEN a
    ELSE IF b.cls = "inf" THEN b
    ELSE IF a.d = b.d THEN RealAddAt(a.s, a.n, b.s, b.n, a.d)
    ELSE RealAddAt(a.s, BMul(a.n, b.d), b.s, BMul(b.n, a.d), BMul(a.d, b.d))

RealSub(a, b) == RealAdd(a, RealNeg(b))

\* a * b: inf * 0 is nan.
RealMul(a, b) ==
    IF a.cls = "nan" \/ b.cls = "nan" THEN RealNaN
    ELSE IF a.cls = "inf" \/ b.cls = "inf"
      THEN (IF (a.cls = "fin" /\ a.n = <<>>) \/ (b.cls = "fin" /\ b.n = <<>>) THEN RealNaN
            ELSE RealInf((a.s + b.s) % 2))
    ELSE Real((a.s + b.s) % 2, BMul(a.n, b.n), BMul(a.d, b.d))

\* a / k for an integer 0 < k < Base.
RealDivInt(a, k) ==
    IF a.cls = "fin" THEN Real(a.s, a.n, BMulSmall(a.d, k)) ELSE a

----------------------------------------------------------------------------
(* float(s) of line 35 on a CSV field, a sequence of one-character         *)
(* strings: blanks around, an optional sign, then nan, inf or infinity in  *)
(* any case, or a decimal number with an optional exponent; underscores    *)
(* only between digits.  The characters are those a TLA+ string can hold,  *)
(* the ones up to U+00FF: the blanks and the decimal digits beyond, which  *)
(* float() also reads, cannot be written.                                  *)

DigitChars == <<"0", "1", "2", "3", "4", "5", "6", "7", "8", "9">>

IsDigit(c) == \E i \in 1..10 : DigitChars[i] = c

DigitVal(c) == (CHOOSE i \in 1..10 : DigitChars[i] = c) - 1

AllDigits(s) == \A i \in 1..Len(s) : IsDigit(s[i])

Lower(c) ==
    CASE c = "N" -> "n" [] c = "A" -> "a" [] c = "I" -> "i" [] c = "F" -> "f"
      [] c = "T" -> "t" [] c = "Y" -> "y" [] c = "E" -> "e" [] OTHER -> c

\* The blanks float() skips: space, tab, line feed, carriage return and form
\* feed, and, written as the characters themselves, the vertical tab
\* (U+000B), the next-line character (U+0085) and the no-break space (U+00A0).
WhiteSpace == {" ", "\t", "\n", "\r", "\f", "", "", " "}

\* s without the blanks at its two ends.
Strip(s) ==
    LET ink == {i \in 1..Len(s) : s[i] \notin WhiteSpace}
    IN  IF ink = {} THEN <<>> ELSE SubSeq(s, SetMin(ink), SetMax(ink))

\* Every underscore stands between two digits.
UnderscoresOk(s) ==
    \A i \in 1..Len(s) :
        s[i] = "_" => (i > 1 /\ i < Len(s) /\ IsDigit(s[i - 1]) /\ IsDigit(s[i + 1]))

NotUnderscore(c) == c # "_"

DropUnderscores(s) == SelectSeq(s, NotUnderscore)

\* The natural number a digit string reads as in base 10 (0 for the empty
\* string).
RECURSIVE DecVal(_)
DecVal(s) ==
    IF s = <<>> THEN <<>>
    ELSE IF Len(s) = 1 THEN BFromInt(DigitVal(s[1]))
    ELSE LET mid == Len(s) \div 2
         IN  BAdd(BMulPow10(DecVal(SubSeq(s, 1, mid)), Len(s) - mid),
                  DecVal(SubSeq(s, mid + 1, Len(s))))

\* digits [ "." digits ] with at least one digit.
IsDecimal(s) ==
    LET dots == {i \in 1..Len(s) : s[i] = "."}
    IN  /\ Cardinality(dots) <= 1
        /\ \A i \in (1..Len(s)) \ dots : IsDigit(s[i])
        /\ Len(s) > Cardinality(dots)

\* [ "+" | "-" ] digits with at least one digit.
IsExponent(s) ==
    LET signed == s # <<>> /\ Head(s) \in {"+", "-"}
        digits == IF signed THEN Tail(s) ELSE s
    IN  digits # <<>> /\ AllDigits(digits)

\* s without its leading zeros.
DropZeros(s) ==
    LET nz == {i \in 1..Len(s) : s[i] # "0"}
    IN  IF nz = {} THEN <<>> ELSE SubSeq(s, SetMin(nz), Len(s))

\* The largest size of exponent that is told from a larger one: beyond it
\* the literal is zero or infinite whatever its digits, of which there are
\* fewer than 10^9.
ExpCap == 1100000000

\* The integer a string of at most nine digits reads as.
RECURSIVE DecSmall(_)
DecSmall(s) ==
    IF s = <<>> THEN 0
    ELSE 10 * DecSmall(SubSeq(s, 1, Len(s) - 1)) + DigitVal(s[Len(s)])

\* The integer a digit string without leading zeros reads as, cut off at
\* ExpCap.
ExponentSize(digits) ==
    IF Len(digits) > 9 THEN ExpCap ELSE DecSmall(digits)

\* The integer an exponent reads as, cut off at ExpCap.
ExponentVal(s) ==
    IF Head(s) = "-" THEN -ExponentSize(DropZeros(Tail(s)))
    ELSE IF Head(s) = "+" THEN ExponentSize(DropZeros(Tail(s)))
    ELSE ExponentSize(DropZeros(s))

\* The number of digits after the point of a decimal number.
FracLen(mant) ==
    LET dots == {i \in 1..Len(mant) : mant[i] = "."}
    IN  IF dots = {} THEN 0 ELSE Len(mant) - SetMin(dots)

\* The float64 of a decimal number mant with the exponent part expo (the
\* text after e, <<>> when there is none), of sign s.
DecimalVal(s, mant, expo) ==
    F64FromDecimal(s, DecVal(SelectSeq(mant, IsDigit)),
                   (IF expo = <<>> THEN 0 ELSE ExponentVal(expo)) - FracLen(mant))

Ok(v) == [ok |-> TRUE, v |-> v, exc |-> "none"]
Raised(type) == [ok |-> FALSE, v |-> None, exc |-> type]

\* A decimal number mant followed by e and the exponent expo.
ParseExponent(sgn, mant, expo) ==
    IF IsDecimal(mant) /\ IsExponent(expo) THEN Ok(DecimalVal(sgn, mant, expo))
    ELSE Raised("ValueError")

\* A decimal number, with an exponent after the first of the places es of
\* the letter e if there is one.
ParseDecimal(sgn, body, es) ==
    IF es # {}
      THEN ParseExponent(sgn, SubSeq(body, 1, SetMin(es) - 1),
                         SubSeq(body, SetMin(es) + 1, Len(body)))
    ELSE IF IsDecimal(body) THEN Ok(DecimalVal(sgn, body, <<>>))
    ELSE Raised("ValueError")

\* The text after the sign: nan, inf, infinity or a decimal number.
ParseUnsigned(sgn, body) ==
    IF [i \in 1..Len(body) |-> Lower(body[i])] = <<"n", "a", "n">> THEN Ok(F64NaN)
    ELSE IF [i \in 1..Len(body) |-> Lower(body[i])]
              \in {<<"i", "n", "f">>, <<"i", "n", "f", "i", "n", "i", "t", "y">>}
      THEN Ok(F64Inf(sgn))
    ELSE ParseDecimal(sgn, body, {i \in 1..Len(body) : body[i] \in {"e", "E"}})

\* The text between the blanks: an optional sign, then the rest.
ParseSigned(str) ==
    IF str # <<>> /\ Head(str) = "-" THEN ParseUnsigned(1, Tail(str))
    ELSE IF str # <<>> /\ Head(str) = "+" THEN ParseUnsigned(0, Tail(str))
    ELSE ParseUnsigned(0, str)

ParseFloat(field) ==
    IF field.none THEN Raised("TypeError")
    ELSE IF ~UnderscoresOk(field.v) THEN Raised("ValueError")
    ELSE ParseSigned(Strip(DropUnderscores(field.v)))

----------------------------------------------------------------------------
(* The exception classes that occur, and the except clauses of lines 36-39. *)

\* The built-in classes a class derives from (itself included).
Bases(type) ==
    CASE type = "FileNotFoundError" -> {"FileNotFoundError", "OSError", "Exception"}
      [] type = "IsADirectoryError" -> {"IsADirectoryError", "OSError", "Exception"}
      [] type = "UnicodeDecodeError" -> {"UnicodeDecodeError", "ValueError", "Exception"}
      [] type = "KeyError" -> {"KeyError", "LookupError", "Exception"}
      [] type = "ValueError" -> {"ValueError", "Exception"}
      [] type = "TypeError" -> {"TypeError", "Exception"}

IsInstance(type, class) == class \in Bases(type)

NoOutcome == [kind |-> "none", type |-> "none", line |-> 0]
Raise(type, line) == [kind |-> "raise", type |-> type, line |-> line]
Return == [kind |-> "return", type |-> "float", line |-> 62]

\* Variant of the except clauses without the catch-all of lines 38-39.
HandlerNoCatchAll(e) == e

\* An exception raised inside the try block, as it leaves the function:
\* ValueError and KeyError (and their subclasses) pass unchanged, any other
\* Exception is replaced by a ValueError raised at line 39.
Handler(e) ==
    IF IsInstance(e.type, "ValueError") \/ IsInstance(e.type, "KeyError") THEN e
    ELSE Raise("ValueError", 39)

----------------------------------------------------------------------------
(* csv.DictReader over the lines of the file (lines 29-35). *)

X == <<"x">>
Y == <<"y">>
Z == <<"z">>

\* row[name] of the dict DictReader builds: dict(zip(fieldnames, row)), then
\* None for the field names beyond the end of a short row.  A name that
\* occurs twice takes its last column.
DictGet(names, row, name) ==
    LET cols == {j \in 1..Len(names) : names[j] = name}
        last == CHOOSE j \in cols : \A k \in cols : k <= j
    IN  IF last <= Len(row) THEN Some(row[last]) ELSE Nothing

HasColumns(names) ==
    \A col \in {X, Y, Z} : \E j \in 1..Len(names) : names[j] = col

\* Lines 29-32 on an opened file: reader.fieldnames is the first line (None
\* when there is none), and reading it decodes the file.  exc is the
\* exception raised inside the try block, if any.
ReadHeader(dec, ls) ==
    IF ~dec THEN [exc |-> Raise("UnicodeDecodeError", 31), names |-> Nothing]
    ELSE IF ls = <<>> THEN [exc |-> Raise("TypeError", 31), names |-> Nothing]
    ELSE IF ~HasColumns(ls[1]) THEN [exc |-> Raise("KeyError", 32), names |-> Some(ls[1])]
    ELSE [exc |-> NoOutcome, names |-> Some(ls[1])]

\* Variant of the row iteration that takes a blank line for the end of the
\* data.
NextLineStopAtBlank(ls, p) ==
    IF p + 1 <= Len(ls) /\ ls[p + 1] # <<>> THEN p + 1 ELSE 0

\* The index of the next line after p that is not blank, 0 when there is none
\* (DictReader.__next__ skips the lines csv.reader yields as []).
NextLine(ls, p) ==
    LET rest == {j \in (p + 1)..Len(ls) : ls[j] # <<>>}
    IN  IF rest = {} THEN 0 ELSE CHOOSE j \in rest : \A k \in rest : j <= k

\* Line 35 on one row: the three conversions in the order x, y, z; the first
\* that raises ends the row.
ParsePoint(px, py, pz) ==
    IF ~px.ok THEN [exc |-> Raise(px.exc, 35), point |-> <<>>]
    ELSE IF ~py.ok THEN [exc |-> Raise(py.exc, 35), point |-> <<>>]
    ELSE IF ~pz.ok THEN [exc |-> Raise(pz.exc, 35), point |-> <<>>]
    ELSE [exc |-> NoOutcome, point |-> <<px.v, py.v, pz.v>>]

ParseRow(names, row) ==
    ParsePoint(ParseFloat(DictGet(names, row, X)),
               ParseFloat(DictGet(names, row, Y)),
               ParseFloat(DictGet(names, row, Z)))

----------------------------------------------------------------------------
(* The numeric computation (lines 46-60). *)
(* Computed twice: in float64 arithmetic, as the value the function        *)
(* returns, and in real arithmetic on the same points, as the number that  *)
(* value stands for.                                                       *)

\* The constant of line 60, 1.5382 = CepNum / 10^CepScale.
CepNum == 15382
CepScale == 4

\* Variant of the minimum count that lets a single point through.
OnePoint == 2 - 1

\* The fewest points line 42 accepts.
MinPoints == 2

Column(cs, j) == [i \in 1..Len(cs) |-> cs[i][j]]

\* The sum of a non-empty sequence, taken from the first element on.
RECURSIVE F64SumSeq(_)
F64SumSeq(s) ==
    IF Len(s) = 1 THEN s[1]
    ELSE F64Add(F64SumSeq(SubSeq(s, 1, Len(s) - 1)), s[Len(s)])

RECURSIVE RealSumSeq(_)
RealSumSeq(s) ==
    IF Len(s) = 1 THEN s[1]
    ELSE RealAdd(RealSumSeq(SubSeq(s, 1, Len(s) - 1)), s[Len(s)])

\* Variant: the divisor of the unbiased sample variance (ddof=1).
VarDivisorSample(n) == n - 1

\* The divisor np.var uses with its default ddof=0.
VarDivisor(n) == n

\* np.var(coords_np, axis=0), one axis: the mean of the squared deviations
\* from the mean.
F64Var(col) ==
    LET m == F64DivInt(F64SumSeq(col), Len(col))
        dev == [i \in 1..Len(col) |-> F64Sub(col[i], m)]
        sq == [i \in 1..Len(col) |-> F64Mul(dev[i], dev[i])]
    IN  F64DivInt(F64SumSeq(sq), VarDivisor(Len(col)))

RealVar(col) ==
    LET m == RealDivInt(RealSumSeq(col), Len(col))
        dev == [i \in 1..Len(col) |-> RealSub(col[i], m)]
        sq == [i \in 1..Len(col) |-> RealMul(dev[i], dev[i])]
    IN  RealDivInt(RealSumSeq(sq), VarDivisor(Len(col)))

\* Lines 46-60 as numpy computes them.
Cep64(cs) ==
    LET variance == [j \in 1..3 |-> F64Var(Column(cs, j))]
        sigma_s == F64Sqrt(F64SumSeq(variance))
    IN  F64Mul(F64FromDecimal(0, BFromInt(CepNum), -CepScale), sigma_s)

\* Variant of lines 55-60 without the square root: 1.5382 times the sum of
\* the variances, written as coef * sqrt(rad).
RealCepNoSqrt(pts) ==
    LET variance == [j \in 1..3 |-> RealVar(Column(pts, j))]
    IN  [coef |-> Real(0, BFromInt(CepNum), BMulPow10(<<1>>, CepScale)),
         rad |-> RealMul(RealSumSeq(variance), RealSumSeq(variance))]

\* Lines 46-60 in real arithmetic on points of real coordinates: the value
\* coef * sqrt(rad), with rad the sum of the three variances (sqrt of nan
\* is nan, of +inf is +inf).
RealCep(pts) ==
    LET variance == [j \in 1..3 |-> RealVar(Column(pts, j))]
    IN  [coef |-> Real(0, BFromInt(CepNum), BMulPow10(<<1>>, CepScale)),
         rad |-> RealSumSeq(variance)]

\* The points of coords with their exact values.
RealPoints(cs) == [i \in 1..Len(cs) |-> [j \in 1..3 |-> RealOfF64(cs[i][j])]]

\* The value returned: the float64, and the real number it stands for.
Cep(cs) == [f64 |-> Cep64(cs), real |-> RealCep(RealPoints(cs))]

----------------------------------------------------------------------------
(* calculate_cep as a function of what the path names, for a call that no  *)
(* other process disturbs.                                                 *)

\* The loop of lines 34-35 from line p on, with the points read so far.
RECURSIVE LoadRows(_, _, _, _)
LoadRows(names, ls, p, acc) ==
    LET j == NextLine(ls, p)
        r == ParseRow(names, ls[j])
    IN  IF j = 0 THEN [exc |-> NoOutcome, coords |-> acc]
        ELSE IF r.exc.kind = "raise" THEN [exc |-> r.exc, coords |-> acc]
        ELSE LoadRows(names, ls, j, Append(acc, r.point))

\* Lines 23-39: the exception that leaves the function, if any, and the
\* points loaded.
Load(f, dec, ls) ==
    IF f = "absent" THEN [exc |-> Raise("FileNotFoundError", 24), coords |-> <<>>]
    ELSE IF f = "dir"
      THEN [exc |-> Handler(Raise("IsADirectoryError", 28)), coords |-> <<>>]
    ELSE
      LET h == ReadHeader(dec, ls)
          l == LoadRows(h.names.v, ls, 1, <<>>)
      IN  IF h.exc.kind = "raise" THEN [exc |-> Handler(h.exc), coords |-> <<>>]
          ELSE IF l.exc.kind = "raise" THEN [exc |-> Handler(l.exc), coords |-> l.coords]
          ELSE [exc |-> NoOutcome, coords |-> l.coords]

\* Lines 23-43 and 62: how the call ends.
Ends(f, dec, ls) ==
    LET l == Load(f, dec, ls)
    IN  IF l.exc.kind = "raise" THEN l.exc
        ELSE IF Len(l.coords) < MinPoints THEN Raise("ValueError", 43)
        ELSE Return

CalculateCep(f, dec, ls) ==
    LET o == Ends(f, dec, ls)
    IN  [outcome |-> o,
         result |-> IF o.kind = "return" THEN Cep(Load(f, dec, ls).coords) ELSE None]

----------------------------------------------------------------------------
(* The files of the model. *)

T0 == <<"0">>
T1 == <<"", "1", " ">>
T3 == <<"\t", "3", " ">>
TNeg2 == <<"-", "2">>
THalf == <<"1", "5", "e", "-", "1">>
TAbc == <<"a", "b", "c">>
TEmpty == <<>>
TNan == <<"n", "a", "n">>
TInf == <<"i", "n", "f">>
TId == <<"i", "d">>

Header == <<X, Y, Z>>

\* Rows of three finite numbers.
GoodRows == { <<T0, T0, THalf>>, <<T1, TNeg2, THalf>>, <<T3, T0, THalf>> }

\* Rows with a field float() rejects or reads as a non-finite value, a row
\* that is too short, a row with a field too many, and a blank line.
OddRows ==
    { <<TAbc, T0, T0>>, <<T1, TEmpty, T0>>, <<T1, T0, TNan>>, <<TInf, T0, T0>>,
      <<T1, T0>>, <<T1, T0, T0, T3>>, <<>> }

\* Other first lines: columns in another order, a column missing, other
\* case, data where the header should be, a column more, a column twice, a
\* column again beyond the end of the rows, a blank line.
OtherHeaders ==
    { <<Z, Y, X>>, <<X, Y>>, <<<<"X">>, <<"Y">>, <<"Z">>>>, <<T1, T0, T0>>,
      <<TId, X, Y, Z>>, <<X, X, Y, Z>>, <<X, Y, Z, X>>, <<>> }

SchemaRows == { <<T0, T0, T0>>, <<T3, TNeg2, T1>>, <<TAbc, T0, T0>>, <<T1, T0, TNan>>,
                <<T1, T0, T0, T3>> }

SeqsUpTo(S, n) == UNION {[1..k -> S] : k \in 0..n}

Files ==
    {<<>>}
    \cup {<<Header>> \o rows : rows \in SeqsUpTo(GoodRows \cup OddRows, MaxRows)}
    \cup {<<h>> \o rows : h \in OtherHeaders, rows \in SeqsUpTo(SchemaRows, MaxRowsSchema)}

\* Files with a byte sequence the encoding rejects, in the first chunk read.
UndecodableFiles ==
    {<<h>> \o rows : h \in {Header, <<X, Y>>}, rows \in SeqsUpTo(SchemaRows, 1)}

----------------------------------------------------------------------------
(* The call, step by step. *)

TypeOK ==
    /\ fs \in {"absent", "dir", "file"}
    /\ decodable \in BOOLEAN
    /\ pc \in {"exists", "open", "header", "rows", "count", "compute", "done"}
    /\ pos \in 0..Len(lines)
    /\ outcome.kind \in {"none", "raise", "return"}

Init ==
    /\ \/ fs \in {"absent", "dir"} /\ lines = <<>> /\ decodable = TRUE
       \/ fs = "file" /\ lines \in Files /\ decodable = TRUE
       \/ fs = "file" /\ lines \in UndecodableFiles /\ decodable = FALSE
    /\ pc = "exists"
    /\ fieldnames = Nothing
    /\ pos = 0
    /\ coords = <<>>
    /\ caught = NoOutcome
    /\ outcome = NoOutcome
    /\ result = None

\* Line 23, the path exists.
Exists ==
    /\ pc = "exists" /\ fs # "absent"
    /\ pc' = "open"
    /\ UNCHANGED <<fs, decodable, lines, fieldnames, pos, coords, caught, outcome, result>>

\* Lines 23-24, the path does not exist.
NotFound ==
    /\ pc = "exists" /\ fs = "absent"
    /\ outcome' = Raise("FileNotFoundError", 24)
    /\ pc' = "done"
    /\ UNCHANGED <<fs, decodable, lines, fieldnames, pos, coords, caught, result>>

\* Line 28, open succeeds.
Open ==
    /\ pc = "open" /\ fs = "file"
    /\ pc' = "header"
    /\ UNCHANGED <<fs, decodable, lines, fieldnames, pos, coords, caught, outcome, result>>

\* Line 28, open raises an OSError, which line 38 catches.
OpenFails ==
    /\ pc = "open" /\ fs # "file"
    /\ caught' = Raise(IF fs = "absent" THEN "FileNotFoundError" ELSE "IsADirectoryError", 28)
    /\ outcome' = Handler(caught')
    /\ pc' = "done"
    /\ UNCHANGED <<fs, decodable, lines, fieldnames, pos, coords, result>>

\* Lines 29-32, the header has the three columns.
HeaderOk ==
    /\ pc = "header"
    /\ ReadHeader(decodable, lines).exc.kind = "none"
    /\ fieldnames' = ReadHeader(decodable, lines).names
    /\ pos' = 1
    /\ pc' = "rows"
    /\ UNCHANGED <<fs, decodable, lines, coords, caught, outcome, result>>

\* Lines 29-32, reading or checking the header raises.
HeaderFails ==
    /\ pc = "header"
    /\ ReadHeader(decodable, lines).exc.kind = "raise"
    /\ fieldnames' = ReadHeader(decodable, lines).names
    /\ pos' = IF lines = <<>> \/ ~decodable THEN 0 ELSE 1
    /\ caught' = ReadHeader(decodable, lines).exc
    /\ outcome' = Handler(caught')
    /\ pc' = "done"
    /\ UNCHANGED <<fs, decodable, lines, coords, result>>

\* Lines 34-35, one more row is read and converted.
RowOk ==
    /\ pc = "rows"
    /\ NextLine(lines, pos) # 0
    /\ LET j == NextLine(lines, pos)
           r == ParseRow(fieldnames.v, lines[j])
       IN  /\ r.exc.kind = "none"
           /\ coords' = Append(coords, r.point)
           /\ pos' = j
    /\ UNCHANGED <<fs, decodable, lines, pc, fieldnames, caught, outcome, result>>

\* Lines 34-39, a conversion of the next row raises.
RowFails ==
    /\ pc = "rows"
    /\ NextLine(lines, pos) # 0
    /\ LET j == NextLine(lines, pos)
           r == ParseRow(fieldnames.v, lines[j])
       IN  /\ r.exc.kind = "raise"
           /\ caught' = r.exc
           /\ outcome' = Handler(r.exc)
           /\ pos' = j
    /\ pc' = "done"
    /\ UNCHANGED <<fs, decodable, lines, fieldnames, coords, result>>

\* Line 34, the reader is exhausted.
RowsEnd ==
    /\ pc = "rows"
    /\ NextLine(lines, pos) = 0
    /\ pos' = Len(lines)
    /\ pc' = "count"
    /\ UNCHANGED <<fs, decodable, lines, fieldnames, coords, caught, outcome, result>>

\* Lines 42-43, too few points.
TooFew ==
    /\ pc = "count" /\ Len(coords) < MinPoints
    /\ outcome' = Raise("ValueError", 43)
    /\ pc' = "done"
    /\ UNCHANGED <<fs, decodable, lines, fieldnames, pos, coords, caught, result>>

\* Line 42, enough points.
Enough ==
    /\ pc = "count" /\ ~(Len(coords) < MinPoints)
    /\ pc' = "compute"
    /\ UNCHANGED <<fs, decodable, lines, fieldnames, pos, coords, caught, outcome, result>>

\* Lines 46-62.
Compute ==
    /\ pc = "compute"
    /\ result' = Cep(coords)
    /\ outcome' = Return
    /\ pc' = "done"
    /\ UNCHANGED <<fs, decodable, lines, fieldnames, pos, coords, caught>>

Next ==
    \/ Exists \/ NotFound \/ Open \/ OpenFails \/ HeaderOk \/ HeaderFails
    \/ RowOk \/ RowFails \/ RowsEnd \/ TooFew \/ Enough \/ Compute

Spec == Init /\ [][Next]_vars

\* Another process removes the file.
DeleteFile ==
    /\ fs = "file"
    /\ fs' = "absent"
    /\ UNCHANGED <<decodable, lines, pc, fieldnames, pos, coords, caught, outcome, result>>

NextRace == Next \/ DeleteFile

SpecRace == Init /\ [][NextRace]_vars

----------------------------------------------------------------------------
(* Properties of a finished call, stated on the input and on what the call *)
(* left behind.                                                            *)

Done == pc = "done"

Returned == Done /\ outcome.kind = "return"

RaisedA(class) == Done /\ outcome.kind = "raise" /\ IsInstance(outcome.type, class)

\* The first line of the file names the columns x, y and z.
HeaderValid ==
    lines # <<>> /\ \A col \in {X, Y, Z} : \E j \in 1..Len(lines[1]) : lines[1][j] = col

\* The data rows of the file: the lines after the first that are not blank.
DataLines == {i \in 2..Len(lines) : lines[i] # <<>>}

\* A field that is present and reads as a finite real number.
FieldFinite(field) ==
    ~field.none /\ ParseFloat(field).ok /\ IsFinite(ParseFloat(field).v)

\* A data row whose x, y and z are finite real numbers.
RowValid(i) == \A col \in {X, Y, Z} : FieldFinite(DictGet(lines[1], lines[i], col))

AllFinite(cs) == \A i \in 1..Len(cs) : \A j \in 1..3 : IsFinite(cs[i][j])

\* Two values coef * sqrt(rad) with equal parts.
SameReal(a, b) == RealEq(a.coef, b.coef) /\ RealEq(a.rad, b.rad)

\* The float64 v agrees with the real number real.coef * sqrt(real.rad): nan
\* with nan, zero with zero, and otherwise the squares differ by less than
\* one part in 2^40.
F64Near(v, real) ==
    IF real.rad.cls # "fin" \/ real.rad.s = 1 THEN v.cls = "nan"
    ELSE IF real.rad.n = <<>> THEN F64IsZero(v)
    ELSE
      /\ v.cls = "fin" /\ v.s = 0 /\ v.m # <<>>
      /\ LET c == real.coef
             x == BMul(BMul(v.m, v.m), BMul(BMul(c.d, c.d), real.rad.d))
             y == BMul(BMul(c.n, c.n), real.rad.n)
             lhs == IF v.e > 0 THEN BShl(x, 2 * v.e) ELSE x
             rhs == IF v.e < 0 THEN BShl(y, -(2 * v.e)) ELSE y
             diff == IF BCmp(lhs, rhs) >= 0 THEN BSub(lhs, rhs) ELSE BSub(rhs, lhs)
         IN  BCmp(BShl(diff, 40), rhs) <= 0

\* C1: a call on an existing file with a valid header that loaded fewer than
\* two data rows raises ValueError and returns no value; when every row it
\* read was converted, the error is the one of line 43.
C1_FewRowsRaise ==
    (Done /\ fs = "file" /\ HeaderValid /\ Len(coords) < 2) =>
        /\ RaisedA("ValueError")
        /\ result = None
        /\ (decodable /\ caught.kind = "none") => outcome = Raise("ValueError", 43)

\* A file with one good data row was rejected at line 43.
C1_Witness ==
    /\ Done /\ fs = "file" /\ HeaderValid
    /\ Cardinality(DataLines) = 1 /\ Len(coords) = 1
    /\ outcome = Raise("ValueError", 43)

\* C2: a call on an existing file whose first line does not name x, y and z
\* (or that has no first line) raises KeyError, with no row converted and
\* nothing computed.
C2_BadHeaderKeyError ==
    (Done /\ fs = "file" /\ decodable /\ ~HeaderValid) =>
        /\ outcome.kind = "raise" /\ outcome.type = "KeyError"
        /\ coords = <<>>
        /\ result = None

\* C3: a call on an existing file with a valid header, one of whose rows has
\* an x, y or z that is missing or not a finite number, raises ValueError and
\* computes nothing.
C3_BadFieldValueError ==
    (Done /\ fs = "file" /\ decodable /\ HeaderValid /\ \E i \in DataLines : ~RowValid(i)) =>
        /\ RaisedA("ValueError")
        /\ result = None

\* C4: a call on a path that does not exist or cannot be read raises
\* FileNotFoundError.
C4_UnreadableNotFound ==
    (Done /\ fs # "file") => (outcome.kind = "raise" /\ outcome.type = "FileNotFoundError")

\* Every check of the loader passes on the input.
ChecksPass ==
    /\ fs = "file" /\ HeaderValid
    /\ \A i \in DataLines : RowValid(i)
    /\ Cardinality(DataLines) >= 2

\* The kind of the first check that fails, in the order resource, schema,
\* values, sample size.
FirstFailure ==
    IF fs # "file" THEN "FileNotFoundError"
    ELSE IF ~HeaderValid THEN "KeyError"
    ELSE "ValueError"

\* C5: the computation starts only when every check has passed, on all the
\* rows of the file, and a call that fails reports the first failing check.
C5_ChecksBeforeCompute ==
    decodable =>
        /\ pc = "compute" => (ChecksPass /\ Len(coords) = Cardinality(DataLines))
        /\ Done => IF ChecksPass THEN outcome.kind = "return"
                   ELSE outcome.kind = "raise" /\ outcome.type = FirstFailure

\* n * (sum of a^2) - (sum of a)^2 over column j, which is n^2 times the
\* population variance of the column.
ScaledVar(pts, j) ==
    LET col == Column(pts, j)
        n == Len(col)
        sq == [i \in 1..n |-> RealMul(col[i], col[i])]
    IN  RealSub(RealMul(RealOfInt(n), RealSumSeq(sq)), RealMul(RealSumSeq(col), RealSumSeq(col)))

\* C6: on n >= 2 finite points the value returned is 1.5382 * sqrt(v) with
\* v the sum over the three axes of the population variance (divisor n), and
\* the float64 returned is that number up to rounding.
C6_PopulationFormula ==
    (Returned /\ AllFinite(coords)) =>
        LET n == Len(coords)
            pts == RealPoints(coords)
        IN  /\ n >= 2
            /\ RealEq(result.real.coef, Real(0, BFromInt(15382), BFromInt(10000)))
            /\ RealEq(RealMul(RealOfInt(n * n), result.real.rad),
                      RealAdd(RealAdd(ScaledVar(pts, 1), ScaledVar(pts, 2)), ScaledVar(pts, 3)))
            /\ F64Near(result.f64, result.real)

\* Three finite points that do not coincide gave a result.
C6_Witness ==
    /\ Returned /\ AllFinite(coords) /\ Len(coords) = 3
    /\ result.real.rad.n # <<>> /\ result.f64.cls = "fin"

\* The rearrangements of a file: the first line kept, the other lines
\* permuted.
RowOrders(n) == {q \in [1..n -> 1..n] : \A i, j \in 1..n : q[i] = q[j] => i = j}

Permuted(ls, q) == <<ls[1]>> \o [i \in 1..(Len(ls) - 1) |-> ls[1 + q[i]]]

Rearranged == {Permuted(lines, q) : q \in RowOrders(Len(lines) - 1)}

\* C7 as stated: every rearrangement of the rows of a file gives the
\* identical outcome and the identical returned float.
C7_IdenticalFloat ==
    (Done /\ fs = "file" /\ decodable /\ lines # <<>>) =>
        \A ls \in Rearranged :
            LET end == Ends(fs, decodable, ls)
            IN  /\ end.kind = outcome.kind
                /\ end.type = outcome.type
                /\ Returned => Cep64(Load(fs, decodable, ls).coords) = result.f64

\* C7, amended: every rearrangement of the rows of a file ends the same way
\* (a return, or an exception of the same class); the value returned stands
\* for the same real number, and for two points it is the identical float.
C7_SameOutcomeAnyOrder ==
    (Done /\ fs = "file" /\ decodable /\ lines # <<>>) =>
        \A ls \in Rearranged :
            LET end == Ends(fs, decodable, ls)
                cs == Load(fs, decodable, ls).coords
            IN  /\ end.kind = outcome.kind
                /\ end.type = outcome.type
                /\ Returned =>
                      /\ SameReal(RealCep(RealPoints(cs)), result.real)
                      /\ (Len(cs) = 2 /\ cs # coords) => Cep64(cs) = result.f64

\* Two different points, which a rearrangement swaps, gave a result.
C7_Witness ==
    /\ Returned /\ Len(coords) = 2 /\ coords[1] # coords[2]
    /\ \E ls \in Rearranged : Load(fs, decodable, ls).coords # coords

\* The factors the scaling is checked with: -2, 0, 1/2 and 3.
Factors == {RealOfInt(-2), RealOfInt(0), Real(0, <<1>>, <<2>>), RealOfInt(3)}

Scaled(pts, k) == [i \in 1..Len(pts) |-> [j \in 1..3 |-> RealMul(k, pts[i][j])]]

\* The points as floats, every coordinate multiplied by the integer k.
F64Scaled(cs, k) ==
    LET f == F64FromDecimal(IF k < 0 THEN 1 ELSE 0, BFromInt(IF k < 0 THEN -k ELSE k), 0)
    IN  [i \in 1..Len(cs) |-> [j \in 1..3 |-> F64Mul(f, cs[i][j])]]

\* C8: on n >= 2 finite points, multiplying every coordinate by k multiplies
\* the value 1.5382 * sqrt(v) by |k|, that is v by k^2; the float64 computed
\* from the scaled points is |k| times the value up to rounding.
C8_ScalesByAbsK ==
    (Returned /\ AllFinite(coords)) =>
        /\ \A k \in Factors :
              SameReal(RealCep(Scaled(RealPoints(coords), k)),
                       [coef |-> result.real.coef,
                        rad |-> RealMul(RealMul(k, k), result.real.rad)])
        /\ \A k \in {-2, 3} :
              F64Near(Cep64(F64Scaled(coords, k)),
                      [coef |-> result.real.coef,
                       rad |-> RealMul(RealOfInt(k * k), result.real.rad)])

\* Two finite points that do not coincide gave a result, and so did their
\* doubles.
C8_Witness ==
    /\ Returned /\ AllFinite(coords) /\ Len(coords) = 2
    /\ result.real.rad.n # <<>>
    /\ Cep64(F64Scaled(coords, -2)).cls = "fin"

\* C9: a finished call has returned a float, or raised FileNotFoundError,
\* KeyError or ValueError, and nothing else; a value is returned only by a
\* call that caught no exception and counted at least two points.
C9_FourOutcomes ==
    Done =>
        \/ /\ outcome.kind = "return"
           /\ result # None
           /\ caught.kind = "none" /\ Len(coords) >= 2
        \/ /\ outcome.kind = "raise"
           /\ result = None
           /\ \E class \in {"FileNotFoundError", "KeyError", "ValueError"} :
                 IsInstance(outcome.type, class)

\* A TypeError raised inside the try block left the function as ValueError.
C9_Witness ==
    /\ Done /\ caught.kind = "raise" /\ caught.type = "TypeError"
    /\ outcome = Raise("ValueError", 39)

\* C10: a call that finds the file gone when it opens it (line 28) raises
\* FileNotFoundError, also when the file was there at line 23.
C10_GoneAtOpenNotFound ==
    (Done /\ caught = Raise("FileNotFoundError", 28)) =>
        (outcome.kind = "raise" /\ outcome.type = "FileNotFoundError")

====
